---- MODULE Spec2Model ----
(***************************************************************************)
(* A model of pyneural.pyx: the NetLayer and NeuralNet extension classes   *)
(* that wrap the C training / inference engine declared in neural.h.       *)
(*                                                                         *)
(* numpy arrays are objects in a heap (identity matters: get_params hands  *)
(* out references, set_params stores copies).  An array is a record        *)
(* [dtype, shape, data]; data is the row-major buffer the C struct points   *)
(* at.  Numbers are integers on a grid: float32 values are the even ones,  *)
(* float64 values are all of them, so astype(np.float32) rounds.           *)
(***************************************************************************)
EXTENDS Integers, Sequences, FiniteSets, TLC

\* ------------------------------------------------------------------ bounds
MaxIter == 2        \* largest max_iter passed to train
MaxRows == 2        \* largest number of rows of a features / labels matrix
MaxCols == 2        \* largest number of columns of a features / labels matrix
MaxAlpha == 2       \* largest initial learning rate (integer valued)
MaxDecay == 2       \* largest decay factor (integer valued)

\* the batch size the constructor allocates for
DefaultBatch == 100

\* layer-size lists handed to the constructor
Configs == {<<2, 1>>, <<1, 1, 1>>, <<5>>, <<>>}
\* values a caller puts in a float64 array
UserVals == {1, 2}
\* float32 values the engine may leave in a parameter
EngineVals == {0, 2}
\* batch sizes a caller passes
BatchSizes == {-1, 0, 1, 2}

VARIABLES
    heap,      \* the numpy arrays alive, by object id 1 .. Len(heap)
    net,       \* the NeuralNet object, NoNet before construction
    held,      \* the list of (bias, theta) array ids the caller holds
    heldSrc,   \* where that list is from: "none", "get_params" or "caller"
    pickled,   \* the bytes last returned by dumps or written by dump
    loaded,    \* the network last returned by loads / load, with its heap
    call,      \* the last public call and its arguments
    res,       \* its outcome: "ok", "error" (exception) or "crash"
    engine,    \* the engine invocations the last call made, in order
    out        \* the matrix last returned by predict_prob

vars == <<heap, net, held, heldSrc, pickled, loaded, call, res, engine, out>>

\* ------------------------------------------------------------ numpy arrays
RECURSIVE Prod(_)
Prod(s) == IF Len(s) = 0 THEN 1 ELSE Head(s) * Prod(Tail(s))

RECURSIVE Pow(_, _)
Pow(b, e) == IF e = 0 THEN 1 ELSE b * Pow(b, e - 1)

Fill(n, v) == [i \in 1..n |-> v]

\* statement sequencing: e is evaluated once, then Body of its value
Then(e, Body(_)) == CHOOSE y \in {Body(x) : x \in {e}} : TRUE

\* np.size(a)
np_size(a) == Prod(a.shape)

\* rounding of a float64 value to float32
Float32(x) == 2 * (x \div 2)

\* a.copy(order='C').astype(np.float32): a new array, same shape, rounded
CopyAsF32(a) ==
    [dtype |-> "f4", shape |-> a.shape,
     data |-> [i \in 1..Len(a.data) |-> Float32(a.data[i])]]

\* a freshly made caller array of float64 values
UserArray(shape, v) == [dtype |-> "f8", shape |-> shape, data |-> Fill(Prod(shape), v)]

\* a[i] = v, converted to the array's dtype
StoreItem(a, i, v) ==
    [a EXCEPT !.data[i] = IF a.dtype = "f4" THEN Float32(v) ELSE v]

\* a new object holding array a
Alloc(h, a) == [heap |-> Append(h, a), id |-> Len(h) + 1]

EmptyHeap == <<>>

\* ---------------------------------------------------------------- NetLayer
NullBuf == [alloc |-> FALSE, size |-> 0, zero |-> FALSE]

\* NetLayer.__init__: random bias (out_nodes) and flat theta (out*in)
NetLayer_init(h, in_nodes, out_nodes, rnd) ==
    Then(Alloc(h, CopyAsF32(UserArray(<<out_nodes>>, rnd))), LAMBDA b :
    Then(Alloc(b.heap, CopyAsF32(UserArray(<<out_nodes * in_nodes>>, rnd))), LAMBDA t :
        [heap |-> t.heap,
         node |-> [in_nodes |-> in_nodes, out_nodes |-> out_nodes,
                   bias |-> b.id, theta |-> t.id,
                   act |-> NullBuf, delta |-> NullBuf,
                   prev |-> 0, next |-> 0]]))

\* NetLayer.set_batch: np.zeros raises on a negative size, before any store
NetLayer_set_batch(node, batch_size) ==
    IF node.in_nodes * batch_size < 0
    THEN [node |-> node, err |-> TRUE]
    ELSE [node |-> [node EXCEPT
                      !.act = [alloc |-> TRUE, size |-> node.in_nodes * batch_size,
                               zero |-> TRUE],
                      !.delta = [alloc |-> TRUE, size |-> node.in_nodes * batch_size,
                                 zero |-> TRUE]],
          err |-> FALSE]

\* the assertions as a check of the shapes instead of the element counts
NetLayer_params_fit_shapes(node, bias, theta) ==
    /\ bias.shape = <<node.out_nodes>>
    /\ theta.shape \in {<<node.out_nodes, node.in_nodes>>,
                        <<node.out_nodes * node.in_nodes>>}

\* the two assertions of NetLayer.set_params
NetLayer_params_fit(node, bias, theta) ==
    /\ np_size(bias) = node.out_nodes
    /\ np_size(theta) = node.out_nodes * node.in_nodes

\* NetLayer.set_params(bias, theta), bias and theta being array ids
NetLayer_set_params(h, node, bias, theta) ==
    IF ~NetLayer_params_fit(node, h[bias], h[theta])
    THEN [heap |-> h, node |-> node, err |-> TRUE]
    ELSE Then(Alloc(h, CopyAsF32(h[bias])), LAMBDA b :
         Then(Alloc(b.heap, CopyAsF32(h[theta])), LAMBDA t :
             [heap |-> t.heap,
              node |-> [node EXCEPT !.bias = b.id, !.theta = t.id],
              err |-> FALSE]))

\* NetLayer.get_params: the arrays themselves
NetLayer_get_params(node) == <<node.bias, node.theta>>

\* --------------------------------------------------------------- NeuralNet
NoNet == [layers |-> <<>>, n_features |-> 0, n_labels |-> 0, batch_size |-> 0,
          head |-> 0, tail |-> 0, chain |-> <<>>]

\* the loop of random_init: curr = NetLayer(layers[k], layers[k+1]) for
\* k = 1 .. len-2 (0-based), linked after prev
RECURSIVE random_init_loop(_, _, _, _, _, _)
random_init_loop(h, layers, chain, prev, k, rnd) ==
    IF k > Len(layers) - 1
    THEN [heap |-> h, chain |-> chain, prev |-> prev]
    ELSE Then(NetLayer_init(h, layers[k], layers[k + 1], rnd), LAMBDA c :
         Then([Append(chain, [c.node EXCEPT !.prev = prev])
                 EXCEPT ![prev].next = Len(chain) + 1], LAMBDA linked :
             random_init_loop(c.heap, layers, linked, Len(linked), k + 1, rnd)))

\* random_init with the tail sized by the first layer size
random_init_tail_first(h, n, rnd) ==
    Then(NetLayer_init(h, n.layers[1], n.layers[2], rnd), LAMBDA hd :
    Then(random_init_loop(hd.heap, n.layers, <<hd.node>>, 1, 2, rnd), LAMBDA mid :
    Then(NetLayer_init(mid.heap, n.layers[1], 0, rnd), LAMBDA tl :
    Then([Append(mid.chain, [tl.node EXCEPT !.prev = mid.prev])
            EXCEPT ![mid.prev].next = Len(mid.chain) + 1], LAMBDA chain :
        [heap |-> tl.heap,
         net |-> [n EXCEPT !.head = 1, !.tail = Len(chain), !.chain = chain]]))))

\* NeuralNet.random_init: a new chain head .. tail; batch_size is kept
random_init(h, n, rnd) ==
    Then(NetLayer_init(h, n.layers[1], n.layers[2], rnd), LAMBDA hd :
    Then(random_init_loop(hd.heap, n.layers, <<hd.node>>, 1, 2, rnd), LAMBDA mid :
    Then(NetLayer_init(mid.heap, n.layers[Len(n.layers)], 0, rnd), LAMBDA tl :
    Then([Append(mid.chain, [tl.node EXCEPT !.prev = mid.prev])
            EXCEPT ![mid.prev].next = Len(mid.chain) + 1], LAMBDA chain :
        [heap |-> tl.heap,
         net |-> [n EXCEPT !.head = 1, !.tail = Len(chain), !.chain = chain]]))))

\* the walk of NeuralNet.set_batch from curr; stops at the first exception
RECURSIVE set_batch_loop(_, _, _)
set_batch_loop(n, curr, batch_size) ==
    IF curr = 0
    THEN [net |-> n, err |-> FALSE]
    ELSE Then(NetLayer_set_batch(n.chain[curr], batch_size), LAMBDA r :
             IF r.err
             THEN [net |-> n, err |-> TRUE]
             ELSE Then([n EXCEPT !.chain[curr] = r.node], LAMBDA n1 :
                      set_batch_loop(n1, n.chain[curr].next, batch_size)))

\* NeuralNet.set_batch: batch_size is stored first, then every layer
set_batch(n, batch_size) ==
    Then([n EXCEPT !.batch_size = batch_size], LAMBDA n1 :
        set_batch_loop(n1, n1.head, batch_size))

\* NeuralNet.__init__ after its assertion
NeuralNet_init(h, layers, rnd) ==
    Then([NoNet EXCEPT !.layers = layers, !.n_features = layers[1],
                       !.n_labels = layers[Len(layers)]], LAMBDA n0 :
    Then(random_init(h, n0, rnd), LAMBDA r :
        [heap |-> r.heap, net |-> set_batch(r.net, DefaultBatch).net]))

\* ------------------------------------------------- the engine of neural.h
\* what the engine needs of the chain: every act and delta buffer allocated
\* with in_nodes * batch_size entries, for a positive batch size
BuffersFit(n, batch_size) ==
    /\ batch_size > 0
    /\ \A k \in DOMAIN n.chain :
          /\ n.chain[k].act.alloc
          /\ n.chain[k].delta.alloc
          /\ n.chain[k].act.size = n.chain[k].in_nodes * batch_size
          /\ n.chain[k].delta.size = n.chain[k].in_nodes * batch_size

\* what a build may do when the engine is entered with buffers that do not
\* fit: the process dies, or the engine runs on
Outcomes == {"crash", "run"}

\* one record of the invocation log: the arguments and the buffers found
EngineCall(fn, n, n_samples, batch_size, alpha, lamb) ==
    [fn |-> fn, n_samples |-> n_samples, batch_size |-> batch_size,
     alpha |-> Float32(alpha), lamb |-> lamb,
     in_nodes |-> [k \in DOMAIN n.chain |-> n.chain[k].in_nodes],
     act |-> [k \in DOMAIN n.chain |-> n.chain[k].act],
     delta |-> [k \in DOMAIN n.chain |-> n.chain[k].delta]]

\* the engine writes activations and errors into the buffers
Dirty(buf) == IF buf.alloc /\ buf.size > 0 THEN [buf EXCEPT !.zero = FALSE] ELSE buf

DirtyBuffers(n) ==
    [n EXCEPT !.chain = [k \in DOMAIN n.chain |->
        [n.chain[k] EXCEPT !.act = Dirty(@), !.delta = Dirty(@)]]]

\* the logistic sigmoid on the grid: 0, 1/2, 1 as 0, 2, 4
Sigmoid(z) == IF z < 0 THEN 0 ELSE IF z = 0 THEN 2 ELSE 4

RECURSIVE Dot(_, _, _, _)
Dot(theta, act, base, i) ==
    IF i = 0 THEN 0 ELSE theta[base + i] * act[i] + Dot(theta, act, base, i - 1)

\* the forward pass of one input row from layer curr to the tail's act
RECURSIVE forward(_, _, _, _)
forward(h, n, curr, act) ==
    LET node == n.chain[curr]
    IN  IF node.next = 0
        THEN act
        ELSE forward(h, n, node.next,
                 [o \in 1..node.out_nodes |->
                     Sigmoid(h[node.bias].data[o]
                             + Dot(h[node.theta].data, act,
                                   (o - 1) * node.in_nodes, node.in_nodes))])

\* neural_predict_prob on rows that all hold value v
neural_predict_prob(h, n, rows, v) ==
    [r \in 1..rows |-> forward(h, n, n.head, Fill(n.n_features, v))]

\* the parameter slots of the chain in order: <<array id, index>>
RECURSIVE ParamSlots(_, _, _)
ParamSlots(h, n, curr) ==
    IF curr = 0
    THEN <<>>
    ELSE LET node == n.chain[curr]
         IN  [i \in 1..Len(h[node.bias].data) |-> <<node.bias, i>>]
             \o [i \in 1..Len(h[node.theta].data) |-> <<node.theta, i>>]
             \o ParamSlots(h, n, node.next)

\* neural_train_iteration: the update is done in place, in the buffers the
\* layers' arrays own; g gives the value each slot is left with
RECURSIVE WriteSlots(_, _, _, _)
WriteSlots(h, slots, g, i) ==
    IF i > Len(slots)
    THEN h
    ELSE WriteSlots([h EXCEPT ![slots[i][1]] = StoreItem(@, slots[i][2], g[i])],
                    slots, g, i + 1)

neural_train_iteration(h, n, g) ==
    [heap |-> WriteSlots(h, ParamSlots(h, n, n.head), g, 1), net |-> DirtyBuffers(n)]

\* ------------------------------------------------------- NeuralNet, public
\* the assertions without the one on the labels' width
train_valid_no_labels(n, frows, fcols, lrows, lcols, batch_size) ==
    /\ frows = lrows
    /\ fcols = n.n_features
    /\ batch_size > 0

\* the assertions with one more, that batch_size divides the row count
train_valid_divisible(n, frows, fcols, lrows, lcols, batch_size) ==
    /\ frows = lrows
    /\ fcols = n.n_features
    /\ lcols = n.n_labels
    /\ batch_size > 0
    /\ frows % batch_size = 0

\* the assertions of train
train_valid(n, frows, fcols, lrows, lcols, batch_size) ==
    /\ frows = lrows
    /\ fcols = n.n_features
    /\ lcols = n.n_labels
    /\ batch_size > 0

\* the epoch loop with the decay applied once per batch
RECURSIVE train_loop_batch_decay(_, _, _, _, _, _, _, _, _, _, _, _)
train_loop_batch_decay(h, n, i, max_iter, n_samples, batch_size, alpha, lamb, decay, g, ub, log) ==
    IF i >= max_iter
    THEN [heap |-> h, net |-> n, log |-> log, crash |-> FALSE]
    ELSE Then(Append(log, EngineCall("train", n, n_samples, batch_size, alpha, lamb)),
              LAMBDA log1 :
             IF ~BuffersFit(n, batch_size) /\ ub = "crash"
             THEN [heap |-> h, net |-> n, log |-> log1, crash |-> TRUE]
             ELSE Then(neural_train_iteration(h, n, g), LAMBDA e :
                      train_loop_batch_decay(e.heap, e.net, i + 1, max_iter, n_samples,
                          batch_size, alpha * Pow(decay, n_samples \div batch_size),
                          lamb, decay, g, ub, log1)))

\* the epoch loop of train from epoch i (0-based); ub tells what the build
\* does when the engine is entered with buffers that do not fit: the
\* process dies ("crash") or goes on ("run")
RECURSIVE train_loop(_, _, _, _, _, _, _, _, _, _, _, _)
train_loop(h, n, i, max_iter, n_samples, batch_size, alpha, lamb, decay, g, ub, log) ==
    IF i >= max_iter
    THEN [heap |-> h, net |-> n, log |-> log, crash |-> FALSE]
    ELSE Then(Append(log, EngineCall("train", n, n_samples, batch_size, alpha, lamb)),
              LAMBDA log1 :
             IF ~BuffersFit(n, batch_size) /\ ub = "crash"
             THEN [heap |-> h, net |-> n, log |-> log1, crash |-> TRUE]
             ELSE Then(neural_train_iteration(h, n, g), LAMBDA e :
                      train_loop(e.heap, e.net, i + 1, max_iter, n_samples,
                          batch_size, alpha * decay,
                          lamb, decay, g, ub, log1)))

\* train after its assertions
train(h, n, n_samples, max_iter, batch_size, alpha, lamb, decay, g, ub) ==
    Then(IF batch_size # n.batch_size THEN set_batch(n, batch_size).net ELSE n,
         LAMBDA n1 :
        train_loop(h, n1, 0, max_iter, n_samples, batch_size, alpha, lamb, decay,
                   g, ub, <<>>))

\* the assertion of predict_prob
predict_valid(n, fcols) == fcols = n.n_features

\* the walk of get_params
RECURSIVE get_params_loop(_, _, _)
get_params_loop(n, curr, acc) ==
    IF curr = 0
    THEN acc
    ELSE get_params_loop(n, n.chain[curr].next,
                         Append(acc, NetLayer_get_params(n.chain[curr])))

get_params(n) == get_params_loop(n, n.head, <<>>)

\* the walk with the index left where it is
RECURSIVE set_params_loop_same_index(_, _, _, _, _)
set_params_loop_same_index(h, n, curr, i, params) ==
    IF curr = 0
    THEN [heap |-> h, net |-> n, err |-> FALSE]
    ELSE IF i > Len(params)
    THEN [heap |-> h, net |-> n, err |-> TRUE]
    ELSE Then(NetLayer_set_params(h, n.chain[curr], params[i][1], params[i][2]),
              LAMBDA r :
             IF r.err
             THEN [heap |-> h, net |-> n, err |-> TRUE]
             ELSE Then([n EXCEPT !.chain[curr] = r.node], LAMBDA n1 :
                      set_params_loop_same_index(r.heap, n1, n.chain[curr].next, i, params)))

\* the walk of set_params from layer curr and list index i (1-based); an
\* exception leaves what earlier iterations stored
RECURSIVE set_params_loop(_, _, _, _, _)
set_params_loop(h, n, curr, i, params) ==
    IF curr = 0
    THEN [heap |-> h, net |-> n, err |-> FALSE]
    ELSE IF i > Len(params)
    THEN [heap |-> h, net |-> n, err |-> TRUE]
    ELSE Then(NetLayer_set_params(h, n.chain[curr], params[i][1], params[i][2]),
              LAMBDA r :
             IF r.err
             THEN [heap |-> h, net |-> n, err |-> TRUE]
             ELSE Then([n EXCEPT !.chain[curr] = r.node], LAMBDA n1 :
                      set_params_loop(r.heap, n1, n.chain[curr].next, i + 1, params)))

\* NeuralNet.set_params(params), params a list of pairs of array ids
set_params(h, n, params) ==
    IF Len(params) # Len(n.layers)
    THEN [heap |-> h, net |-> n, err |-> TRUE]
    ELSE set_params_loop(h, n, n.head, 1, params)

\* ------------------------------------------------------ garbage collection
\* the ids a list of pairs refers to, in list order
RECURSIVE ListIds(_)
ListIds(l) == IF l = <<>> THEN <<>> ELSE <<l[1][1], l[1][2]>> \o ListIds(Tail(l))

\* the ids the layers refer to, in chain order
ParamIds(n) == ListIds([k \in DOMAIN n.chain |-> <<n.chain[k].bias, n.chain[k].theta>>])

Range(f) == {f[x] : x \in DOMAIN f}

RECURSIVE Uniq(_, _)
Uniq(ids, acc) ==
    IF ids = <<>> THEN acc
    ELSE Uniq(Tail(ids), IF Head(ids) \in Range(acc) THEN acc ELSE Append(acc, Head(ids)))

\* arrays nothing refers to any more are freed; the objects left are
\* numbered in the order layers first and the caller's list next
Collect(h, n, l) ==
    Then(Uniq(ParamIds(n) \o ListIds(l), <<>>), LAMBDA live :
    Then([old \in Range(live) |-> CHOOSE j \in DOMAIN live : live[j] = old], LAMBDA id :
        [heap |-> [j \in DOMAIN live |-> h[live[j]]],
         net |-> [n EXCEPT !.chain = [k \in DOMAIN n.chain |->
                     [n.chain[k] EXCEPT !.bias = id[@], !.theta = id[@]]]],
         held |-> [k \in DOMAIN l |-> <<id[l[k][1]], id[l[k][2]]>>]]))

\* ------------------------------------------------------------------ pickle
DtypeCode(d) == IF d = "f4" THEN 4 ELSE 8
DtypeName(c) == IF c = 4 THEN "f4" ELSE "f8"

\* an ndarray is written as dtype, ndim, the shape and the buffer
pickle_array(a) == <<DtypeCode(a.dtype), Len(a.shape)>> \o a.shape \o a.data

RECURSIVE pickle_params(_, _, _)
pickle_params(h, params, i) ==
    IF i > Len(params)
    THEN <<>>
    ELSE pickle_array(h[params[i][1]]) \o pickle_array(h[params[i][2]])
         \o pickle_params(h, params, i + 1)

\* pickle.dumps({'layers': layers, 'params': params})
pickle_dumps(h, layers, params) ==
    <<Len(layers)>> \o layers \o <<Len(params)>> \o pickle_params(h, params, 1)

\* reads one ndarray at position i
unpickle_array(s, i) ==
    Then(s[i + 1], LAMBDA ndim :
    Then(SubSeq(s, i + 2, i + 1 + ndim), LAMBDA shape :
    Then(Prod(shape), LAMBDA size :
        [arr |-> [dtype |-> DtypeName(s[i]), shape |-> shape,
                  data |-> SubSeq(s, i + 2 + ndim, i + 1 + ndim + size)],
         next |-> i + 2 + ndim + size])))

RECURSIVE unpickle_params(_, _, _, _)
unpickle_params(s, i, count, acc) ==
    IF count = 0
    THEN acc
    ELSE Then(unpickle_array(s, i), LAMBDA b :
         Then(unpickle_array(s, b.next), LAMBDA t :
         Then(Append(acc, <<b.arr, t.arr>>), LAMBDA acc1 :
             unpickle_params(s, t.next, count - 1, acc1))))

\* pickle.loads: the dict with the layers and the list of pairs of arrays
pickle_loads(s) ==
    Then(s[1], LAMBDA nl :
        [layers |-> SubSeq(s, 2, 1 + nl),
         params |-> unpickle_params(s, 3 + nl, s[2 + nl], <<>>)])

\* NeuralNet.dumps / NeuralNet.dump
dumps(h, n) == pickle_dumps(h, n.layers, get_params(n))

\* the unpickled arrays as objects of heap h, and the list of their ids
RECURSIVE AllocParams(_, _, _, _)
AllocParams(h, arrs, i, acc) ==
    IF i > Len(arrs)
    THEN [heap |-> h, params |-> acc]
    ELSE Then(Alloc(h, arrs[i][1]), LAMBDA b :
         Then(Alloc(b.heap, arrs[i][2]), LAMBDA t :
         Then(Append(acc, <<b.id, t.id>>), LAMBDA acc1 :
             AllocParams(t.heap, arrs, i + 1, acc1))))

\* loads returning the new network with its random parameters
loads_without_params(s, rnd) ==
    Then(pickle_loads(s), LAMBDA desc :
    Then(NeuralNet_init(EmptyHeap, desc.layers, rnd), LAMBDA c :
    Then(Collect(c.heap, c.net, <<>>), LAMBDA gc :
        [heap |-> gc.heap, net |-> gc.net, err |-> FALSE])))

\* NeuralNet.loads / NeuralNet.load: a new network, then set_params
loads(s, rnd) ==
    Then(pickle_loads(s), LAMBDA desc :
    Then(AllocParams(EmptyHeap, desc.params, 1, <<>>), LAMBDA d :
    Then(NeuralNet_init(d.heap, desc.layers, rnd), LAMBDA c :
    Then(set_params(c.heap, c.net, d.params), LAMBDA r :
    Then(Collect(r.heap, r.net, <<>>), LAMBDA gc :
        [heap |-> gc.heap, net |-> gc.net, err |-> r.err])))))

\* ----------------------------------------------------------------- actions
NoCall == [op |-> "none", layers |-> <<>>, frows |-> 0, fcols |-> 0,
           lrows |-> 0, lcols |-> 0, max_iter |-> 0, batch_size |-> 0,
           alpha |-> 0, lamb |-> 0, decay |-> 0]

NoLoaded == [heap |-> EmptyHeap, net |-> NoNet]

\* a crashed process takes no further step
Alive == res # "crash"

Init ==
    /\ heap = EmptyHeap
    /\ net = NoNet
    /\ held = <<>>
    /\ heldSrc = "none"
    /\ pickled = <<>>
    /\ loaded = NoLoaded
    /\ call = NoCall
    /\ res = "ok"
    /\ engine = <<>>
    /\ out = <<>>

\* net = NeuralNet(layers)
Construct(layers, rnd) ==
    /\ Alive
    /\ net = NoNet
    /\ call' = [NoCall EXCEPT !.op = "init", !.layers = layers]
    /\ engine' = <<>>
    /\ IF Len(layers) >= 2
       THEN \E c \in {NeuralNet_init(heap, layers, rnd)} :
            \E gc \in {Collect(c.heap, c.net, held)} :
                /\ heap' = gc.heap
                /\ net' = gc.net
                /\ held' = gc.held
                /\ res' = "ok"
       ELSE /\ res' = "error"
            /\ UNCHANGED <<heap, net, held>>
    /\ out' = <<>>
    /\ UNCHANGED <<heldSrc, pickled, loaded>>

\* net.random_init()
RandomInit(rnd) ==
    /\ Alive
    /\ net # NoNet
    /\ call' = [NoCall EXCEPT !.op = "random_init"]
    /\ engine' = <<>>
    /\ \E r \in {random_init(heap, net, rnd)} :
       \E gc \in {Collect(r.heap, r.net, held)} :
           /\ heap' = gc.heap
           /\ net' = gc.net
           /\ held' = gc.held
    /\ res' = "ok"
    /\ out' = <<>>
    /\ UNCHANGED <<heldSrc, pickled, loaded>>

\* net.set_batch(batch_size)
SetBatch(batch_size) ==
    /\ Alive
    /\ net # NoNet
    /\ call' = [NoCall EXCEPT !.op = "set_batch", !.batch_size = batch_size]
    /\ engine' = <<>>
    /\ \E r \in {set_batch(net, batch_size)} :
           /\ net' = r.net
           /\ res' = IF r.err THEN "error" ELSE "ok"
    /\ out' = <<>>
    /\ UNCHANGED <<heap, held, heldSrc, pickled, loaded>>

\* net.train(features, labels, max_iter, batch_size, alpha, lamb, decay) with
\* features of shape (frows, fcols) and labels of shape (lrows, lcols)
Train(frows, fcols, lrows, lcols, max_iter, batch_size, alpha, lamb, decay, g) ==
    /\ Alive
    /\ net # NoNet
    /\ call' = [NoCall EXCEPT !.op = "train", !.frows = frows, !.fcols = fcols,
                  !.lrows = lrows, !.lcols = lcols, !.max_iter = max_iter,
                  !.batch_size = batch_size, !.alpha = alpha, !.lamb = lamb,
                  !.decay = decay]
    /\ IF train_valid(net, frows, fcols, lrows, lcols, batch_size)
       THEN \E ub \in IF BuffersFit(IF batch_size # net.batch_size
                                      THEN set_batch(net, batch_size).net ELSE net,
                                      batch_size)
                        THEN {"run"} ELSE Outcomes :
              \E r \in {train(heap, net, frows, max_iter, batch_size, alpha, lamb,
                               decay, g, ub)} :
                  /\ heap' = r.heap
                  /\ net' = r.net
                  /\ engine' = r.log
                  /\ res' = IF r.crash THEN "crash" ELSE "ok"
       ELSE /\ res' = "error"
            /\ engine' = <<>>
            /\ UNCHANGED <<heap, net>>
    /\ out' = <<>>
    /\ UNCHANGED <<held, heldSrc, pickled, loaded>>

\* net.predict_prob(features), features of shape (frows, fcols) holding v
PredictProb(frows, fcols, v) ==
    /\ Alive
    /\ net # NoNet
    /\ call' = [NoCall EXCEPT !.op = "predict_prob", !.frows = frows, !.fcols = fcols]
    /\ IF predict_valid(net, fcols)
       THEN /\ engine' = <<EngineCall("predict", net, frows, net.batch_size, 0, 0)>>
            /\ \/ /\ ~BuffersFit(net, net.batch_size)
                  /\ res' = "crash"
                  /\ out' = <<>>
                  /\ UNCHANGED net
               \/ /\ res' = "ok"
                  /\ out' = neural_predict_prob(heap, net, frows, v)
                  /\ net' = DirtyBuffers(net)
       ELSE /\ res' = "error"
            /\ engine' = <<>>
            /\ out' = <<>>
            /\ UNCHANGED net
    /\ UNCHANGED <<heap, held, heldSrc, pickled, loaded>>

\* held = net.get_params()
GetParams ==
    /\ Alive
    /\ net # NoNet
    /\ call' = [NoCall EXCEPT !.op = "get_params"]
    /\ engine' = <<>>
    /\ \E gc \in {Collect(heap, net, get_params(net))} :
           /\ heap' = gc.heap
           /\ net' = gc.net
           /\ held' = gc.held
    /\ heldSrc' = "get_params"
    /\ res' = "ok"
    /\ out' = <<>>
    /\ UNCHANGED <<pickled, loaded>>

\* the shapes of the pair a caller builds for list position k
PairShape(n, k, kind) ==
    LET i == IF k \in DOMAIN n.chain THEN n.chain[k].in_nodes ELSE 1
        o == IF k \in DOMAIN n.chain THEN n.chain[k].out_nodes ELSE 0
    IN  CASE kind = "flat"       -> <<(<<o>>), (<<o * i>>)>>
          [] kind = "matrix"     -> <<(<<o>>), (<<o, i>>)>>
          [] kind = "transposed" -> <<(<<o>>), (<<i, o>>)>>
          [] kind = "badbias"    -> <<(<<o + 1>>), (<<o * i>>)>>
          [] kind = "badtheta"   -> <<(<<o>>), (<<o * i + 1>>)>>

Kinds == {"flat", "matrix", "transposed", "badbias", "badtheta"}

RECURSIVE AllocList(_, _, _, _, _, _, _)
AllocList(h, n, len, pos, kind, v, acc) ==
    IF Len(acc) = len
    THEN [heap |-> h, params |-> acc]
    ELSE Then(PairShape(n, Len(acc) + 1,
                        IF Len(acc) + 1 = pos THEN kind ELSE "flat"), LAMBDA sh :
         Then(Alloc(h, UserArray(sh[1], v)), LAMBDA b :
         Then(Alloc(b.heap, UserArray(sh[2], v)), LAMBDA t :
         Then(Append(acc, <<b.id, t.id>>), LAMBDA acc1 :
             AllocList(t.heap, n, len, pos, kind, v, acc1)))))

\* the caller builds a list of len pairs of float64 arrays holding v, the
\* pair at position pos of the given kind and the others fitting their layer
MakeParams(len, pos, kind, v) ==
    /\ Alive
    /\ net # NoNet
    /\ call' = [NoCall EXCEPT !.op = "make_params"]
    /\ engine' = <<>>
    /\ \E r \in {AllocList(heap, net, len, pos, kind, v, <<>>)} :
       \E gc \in {Collect(r.heap, net, r.params)} :
           /\ heap' = gc.heap
           /\ net' = gc.net
           /\ held' = gc.held
    /\ heldSrc' = "caller"
    /\ res' = "ok"
    /\ out' = <<>>
    /\ UNCHANGED <<pickled, loaded>>

\* net.set_params(held)
SetParams ==
    /\ Alive
    /\ net # NoNet
    /\ heldSrc # "none"
    /\ call' = [NoCall EXCEPT !.op = "set_params"]
    /\ engine' = <<>>
    /\ \E r \in {set_params(heap, net, held)} :
       \E gc \in {Collect(r.heap, r.net, held)} :
           /\ heap' = gc.heap
           /\ net' = gc.net
           /\ held' = gc.held
           /\ res' = IF r.err THEN "error" ELSE "ok"
    /\ out' = <<>>
    /\ UNCHANGED <<heldSrc, pickled, loaded>>

\* the caller stores v in element i of a held array
Mutate(id, i, v) ==
    /\ Alive
    /\ id \in Range(ListIds(held))
    /\ i \in 1..Len(heap[id].data)
    /\ call' = [NoCall EXCEPT !.op = "mutate"]
    /\ engine' = <<>>
    /\ heap' = [heap EXCEPT ![id] = StoreItem(@, i, v)]
    /\ res' = "ok"
    /\ out' = <<>>
    /\ UNCHANGED <<net, held, heldSrc, pickled, loaded>>

\* pickled = net.dumps()
Dumps ==
    /\ Alive
    /\ net # NoNet
    /\ call' = [NoCall EXCEPT !.op = "dumps"]
    /\ engine' = <<>>
    /\ pickled' = dumps(heap, net)
    /\ res' = "ok"
    /\ out' = <<>>
    /\ UNCHANGED <<heap, net, held, heldSrc, loaded>>

\* net.dump(fp)
Dump ==
    /\ Alive
    /\ net # NoNet
    /\ call' = [NoCall EXCEPT !.op = "dump"]
    /\ engine' = <<>>
    /\ pickled' = dumps(heap, net)
    /\ res' = "ok"
    /\ out' = <<>>
    /\ UNCHANGED <<heap, net, held, heldSrc, loaded>>

\* loaded = NeuralNet.loads(pickled) (op "loads") or NeuralNet.load(fp)
\* reading the same bytes (op "load")
LoadFrom(op, rnd) ==
    /\ Alive
    /\ pickled # <<>>
    /\ call' = [NoCall EXCEPT !.op = op]
    /\ engine' = <<>>
    /\ \E r \in {loads(pickled, rnd)} :
           IF r.err
           THEN /\ res' = "error"
                /\ UNCHANGED loaded
           ELSE /\ res' = "ok"
                /\ loaded' = [heap |-> r.heap, net |-> r.net]
    /\ out' = <<>>
    /\ UNCHANGED <<heap, net, held, heldSrc, pickled>>

Loads(rnd) == LoadFrom("loads", rnd)

Load(rnd) == LoadFrom("load", rnd)

\* what the engine may leave in the parameters: one value in every slot, or
\* a value of its own in each
FlatUpdate == {Fill(Len(ParamSlots(heap, net, net.head)), v) : v \in EngineVals}
RampUpdate == [i \in 1..Len(ParamSlots(heap, net, net.head)) |-> 2 * i]
SomeUpdate == FlatUpdate \cup {RampUpdate}

\* the parameter interface: parameters read, built, stored and modified by
\* the caller, between training runs on well-shaped data
Next ==
    \/ \E layers \in Configs, rnd \in UserVals : Construct(layers, rnd)
    \/ \E g \in SomeUpdate :
          Train(1, net.n_features, 1, net.n_labels, 1, DefaultBatch, 2, 0, 1, g)
    \/ GetParams
    \/ \E len \in 2..3, pos \in 1..3, kind \in Kinds, v \in UserVals :
          MakeParams(len, pos, kind, v)
    \/ SetParams

Spec == Init /\ [][Next]_vars

\* aliasing: arrays the caller holds, modified by the caller or by training
NextAlias ==
    \/ \E layers \in Configs, rnd \in UserVals : Construct(layers, rnd)
    \/ \E g \in SomeUpdate :
          Train(1, net.n_features, 1, net.n_labels, 1, DefaultBatch, 2, 0, 1, g)
    \/ GetParams
    \/ \E v \in UserVals : MakeParams(Len(net.layers), 1, "flat", v)
    \/ SetParams
    \/ \E id \in DOMAIN heap, i \in 1..2, v \in UserVals : Mutate(id, i, v)

SpecAlias == Init /\ [][NextAlias]_vars

\* batch buffers and the chain: every operation that allocates, rebuilds or
\* uses them
NextBatch ==
    \/ \E layers \in Configs, rnd \in UserVals : Construct(layers, rnd)
    \/ \E rnd \in UserVals : RandomInit(rnd)
    \/ \E b \in BatchSizes : SetBatch(b)
    \/ \E b \in {1, 2}, g \in SomeUpdate :
          Train(2, net.n_features, 2, net.n_labels, 1, b, 2, 0, 1, g)
    \/ \E v \in EngineVals : PredictProb(1, net.n_features, v)
    \/ GetParams
    \/ SetParams

SpecBatch == Init /\ [][NextBatch]_vars

\* the assertions of train and predict_prob: data of every shape
NextShapes ==
    \/ \E layers \in Configs, rnd \in UserVals : Construct(layers, rnd)
    \/ \E frows \in 1..MaxRows, fcols \in 1..MaxCols, lrows \in 1..MaxRows,
          lcols \in 1..MaxCols, b \in {0, 1, 2}, g \in {RampUpdate} :
          Train(frows, fcols, lrows, lcols, 1, b, 2, 0, 1, g)
    \/ \E frows \in 1..MaxRows, fcols \in 1..MaxCols, v \in EngineVals :
          PredictProb(frows, fcols, v)

SpecShapes == Init /\ [][NextShapes]_vars

\* the epoch loop of train: every max_iter, learning rate and decay
NextDecay ==
    \/ \E layers \in Configs, rnd \in UserVals : Construct(layers, rnd)
    \/ \E rnd \in UserVals : RandomInit(rnd)
    \/ \E max_iter \in 0..MaxIter, b \in {1, 2}, a \in 1..MaxAlpha, lamb \in {0, 1},
          decay \in 1..MaxDecay, g \in {RampUpdate} :
          Train(2, net.n_features, 2, net.n_labels, max_iter, b, 2 * a, lamb, decay, g)

SpecDecay == Init /\ [][NextDecay]_vars

\* serialization of networks in every state training and set_params reach
NextPickle ==
    \/ \E layers \in Configs, rnd \in UserVals : Construct(layers, rnd)
    \/ \E b \in {0, 2} : SetBatch(b)
    \/ \E g \in SomeUpdate :
          Train(1, net.n_features, 1, net.n_labels, 1, DefaultBatch, 2, 0, 1, g)
    \/ \E v \in UserVals : MakeParams(Len(net.layers), 1, "transposed", v)
    \/ SetParams
    \/ Dumps
    \/ Dump
    \/ \E rnd \in UserVals : Loads(rnd)
    \/ \E rnd \in UserVals : Load(rnd)

SpecPickle == Init /\ [][NextPickle]_vars

\* ------------------------------------------------------------- properties
\* what get_params() of network n gives, as values
GotValues(h, n) ==
    LET gp == get_params(n)
    IN  [k \in DOMAIN gp |-> <<h[gp[k][1]], h[gp[k][2]]>>]

\* the arrays of the caller's list, as values
HeldValues(h, l) == [k \in DOMAIN l |-> <<h[l[k][1]], h[l[k][2]]>>]

\* the layer sizes of a network and the dimensions along its chain
Sizes(n) ==
    [layers |-> n.layers, n_features |-> n.n_features, n_labels |-> n.n_labels,
     dims |-> [k \in DOMAIN n.chain |-> <<n.chain[k].in_nodes, n.chain[k].out_nodes>>]]

\* predict_prob of network n on one row holding v, for each input value v
Predictions(h, n) == [v \in EngineVals |-> neural_predict_prob(h, n, 1, v)]

\* C1: a public call (constructor, train, predict_prob, set_params) that
\* fails with an error has changed the bias and theta of no layer.
C1_FailedCallChangesNothing ==
    [][(res' = "error" /\ call'.op \in {"init", "train", "predict_prob", "set_params"})
         => GotValues(heap', net') = GotValues(heap, net)]_vars

\* the element counts of pair k of the caller's list fit layer k
SizesFit(k) ==
    /\ Prod(heap[held[k][1]].shape) = net.chain[k].out_nodes
    /\ Prod(heap[held[k][2]].shape) = net.chain[k].out_nodes * net.chain[k].in_nodes

\* the shapes of pair k of the caller's list are those of layer k: a bias
\* of length out_nodes and a theta of shape (out_nodes, in_nodes), or that
\* matrix as the flat buffer the layer itself keeps
ShapesAgree(k) ==
    /\ heap[held[k][1]].shape = <<net.chain[k].out_nodes>>
    /\ heap[held[k][2]].shape \in
          {<<net.chain[k].out_nodes, net.chain[k].in_nodes>>,
           <<net.chain[k].out_nodes * net.chain[k].in_nodes>>}

\* C4 as claimed: set_params succeeds only when the shapes agree with
\* out_nodes and (out_nodes, in_nodes); a theta of another shape with the
\* same number of elements is refused.
C4_ShapesChecked ==
    (call.op = "set_params" /\ res = "ok") => \A k \in DOMAIN held : ShapesAgree(k)

\* C4 as amended: set_params of a list with one pair per layer fails exactly
\* when the number of elements of some bias differs from out_nodes or that
\* of some theta from out_nodes * in_nodes, whatever the shapes are.
C4_SizesChecked ==
    (call.op = "set_params" /\ Len(held) = Len(net.layers))
        => (res = "ok" <=> \A k \in DOMAIN held : SizesFit(k))

\* a theta of shape (in_nodes, out_nodes), in_nodes # out_nodes, was accepted
C4_TransposedAccepted ==
    /\ call.op = "set_params"
    /\ res = "ok"
    /\ \E k \in DOMAIN held :
          /\ net.chain[k].in_nodes # net.chain[k].out_nodes
          /\ heap[held[k][2]].shape = <<net.chain[k].in_nodes, net.chain[k].out_nodes>>

\* C7: net.set_params(net.get_params()) succeeds and leaves the bias and
\* theta values of every layer, the layer sizes, batch_size, the buffers and
\* so the output of predict_prob unchanged.
C7_ParamRoundTrip ==
    [][(call'.op = "set_params" /\ heldSrc = "get_params" /\ held = get_params(net))
         => /\ res' = "ok"
            /\ GotValues(heap', net') = GotValues(heap, net)
            /\ Sizes(net') = Sizes(net)
            /\ net'.batch_size = net.batch_size
            /\ \A k \in DOMAIN net.chain :
                  /\ net'.chain[k].act = net.chain[k].act
                  /\ net'.chain[k].delta = net.chain[k].delta
            /\ Predictions(heap', net') = Predictions(heap, net)]_vars

\* set_params(get_params()) has run on a trained three-layer network whose
\* parameters differ from layer to layer: the layers hold copies, equal in
\* value to the arrays get_params returned
C7_RoundTripDone ==
    /\ call.op = "set_params"
    /\ res = "ok"
    /\ heldSrc = "get_params"
    /\ Len(net.chain) = 3
    /\ held # get_params(net)
    /\ HeldValues(heap, held) = GotValues(heap, net)
    /\ heap[net.chain[1].bias] # heap[net.chain[2].bias]

\* C5: get_params and set_params copy values out and in: (a) a later train
\* or set_params leaves the arrays get_params returned as they were, and (b)
\* a store by the caller into an array it holds, returned by get_params or
\* passed to set_params before, leaves the network's parameters as they were.
C5_CopiesInAndOut ==
    [][/\ (call'.op \in {"train", "set_params"} /\ heldSrc = "get_params")
            => HeldValues(heap', held') = HeldValues(heap, held)
       /\ call'.op = "mutate"
            => GotValues(heap', net') = GotValues(heap, net)]_vars

\* C9: whenever the engine is entered, every layer of the chain has act and
\* delta buffers allocated with in_nodes * batch_size entries, batch_size
\* being the value handed to the engine.
C9_BuffersFitEngine ==
    \A i \in DOMAIN engine : \A k \in DOMAIN engine[i].act :
        /\ engine[i].act[k].alloc
        /\ engine[i].delta[k].alloc
        /\ engine[i].act[k].size = engine[i].in_nodes[k] * engine[i].batch_size
        /\ engine[i].delta[k].size = engine[i].in_nodes[k] * engine[i].batch_size

\* the nodes met from curr by next, at most fuel of them
RECURSIVE Walk(_, _, _)
Walk(n, curr, fuel) ==
    IF curr = 0 \/ fuel = 0
    THEN <<>>
    ELSE <<curr>> \o Walk(n, n.chain[curr].next, fuel - 1)

\* the chain of n is that of its layer sizes
ChainOK(n) ==
    LET L == Len(n.layers)
        w == Walk(n, n.head, Len(n.chain) + 1)
    IN  /\ Len(w) = L
        /\ \A i, j \in DOMAIN w : i # j => w[i] # w[j]
        /\ w[L] = n.tail
        /\ n.chain[n.tail].next = 0
        /\ n.chain[n.tail].out_nodes = 0
        /\ n.chain[n.tail].in_nodes = n.n_labels
        /\ n.n_labels = n.layers[L]
        /\ n.chain[n.head].in_nodes = n.n_features
        /\ n.n_features = n.layers[1]
        /\ \A k \in 1..L : n.chain[w[k]].in_nodes = n.layers[k]
        /\ \A k \in 1..(L - 1) :
              /\ n.chain[w[k]].out_nodes = n.layers[k + 1]
              /\ n.chain[w[k + 1]].in_nodes = n.chain[w[k]].out_nodes
              /\ n.chain[w[k + 1]].prev = w[k]

\* the links and dimensions of the chain
Structure(n) ==
    [head |-> n.head, tail |-> n.tail, layers |-> n.layers,
     nodes |-> [k \in DOMAIN n.chain |->
                  <<n.chain[k].in_nodes, n.chain[k].out_nodes,
                    n.chain[k].prev, n.chain[k].next>>]]

\* C10: in every state of a constructed network the chain from head by next
\* is acyclic, has one node per layer size, ends at tail, carries the layer
\* sizes as in_nodes / out_nodes with prev the inverse of next, and
\* get_params returns one pair per node in chain order; train, predict_prob,
\* set_batch and set_params leave the structure as it is.
C10_ChainStructure ==
    /\ [](net # NoNet => ChainOK(net))
    /\ []((net # NoNet /\ call.op = "get_params")
            => /\ Len(held) = Len(net.layers)
               /\ \A k \in DOMAIN held :
                     held[k] = <<net.chain[Walk(net, net.head, k)[k]].bias,
                                 net.chain[Walk(net, net.head, k)[k]].theta>>)
    /\ [][call'.op \in {"train", "predict_prob", "set_batch", "set_params"}
            => Structure(net') = Structure(net)]_vars

\* get_params has returned the three pairs of a three-node chain that was
\* trained with a batch size of its own
C10_ThreeNodeChain ==
    /\ call.op = "get_params"
    /\ Len(net.chain) = 3
    /\ Len(held) = 3
    /\ net.batch_size = 2
    /\ ~net.chain[2].act.zero

\* C3: a constructor call with fewer than two layer sizes fails and leaves
\* no network; train fails when the features' width is not n_features, the
\* labels' width is not n_labels, the row counts differ or batch_size <= 0;
\* predict_prob fails when the features' width is not n_features; none of
\* these calls enters the engine.
C3_ShapeValidation ==
    /\ (call.op = "init" /\ Len(call.layers) < 2)
          => (res = "error" /\ net = NoNet /\ engine = <<>>)
    /\ (call.op = "train" /\ (\/ call.fcols # net.n_features
                              \/ call.lcols # net.n_labels
                              \/ call.frows # call.lrows
                              \/ call.batch_size <= 0))
          => (res = "error" /\ engine = <<>>)
    /\ (call.op = "predict_prob" /\ call.fcols # net.n_features)
          => (res = "error" /\ engine = <<>>)

\* train was refused for labels of the wrong width alone
C3_LabelsRefused ==
    /\ call.op = "train"
    /\ res = "error"
    /\ call.lcols # net.n_labels
    /\ call.fcols = net.n_features
    /\ call.frows = call.lrows
    /\ call.batch_size > 0

\* C6: a train call that returns has entered the engine max_iter times, the
\* k-th time (from 0) with learning rate alpha * decay^k and every time with
\* the same batch_size and lamb.
C6_DecayPerEpoch ==
    (call.op = "train" /\ res = "ok")
        => /\ Len(engine) = call.max_iter
           /\ \A k \in DOMAIN engine :
                 /\ engine[k].fn = "train"
                 /\ engine[k].alpha = call.alpha * Pow(call.decay, k - 1)
                 /\ engine[k].batch_size = call.batch_size
                 /\ engine[k].lamb = call.lamb

\* two epochs of two batches each have run with a decay that is not 1
C6_TwoEpochsDecayed ==
    /\ call.op = "train"
    /\ res = "ok"
    /\ call.decay = 2
    /\ call.batch_size = 1
    /\ Len(engine) = 2
    /\ engine[1].n_samples = 2
    /\ engine[2].alpha = 2 * engine[1].alpha

\* C8 as claimed: train fails, before any epoch, when the number of rows is
\* not a multiple of batch_size.
C8_NonDivisibleRejected ==
    (call.op = "train" /\ call.batch_size > 0 /\ call.frows % call.batch_size # 0)
        => (res = "error" /\ engine = <<>>)

\* C8 as amended: train does not look at divisibility: with well-shaped data
\* and a positive batch_size that does not divide the number of rows, train
\* raises no error and enters the engine, each time with the full number of
\* rows and the batch_size given.
C8_NonDivisibleRuns ==
    (/\ call.op = "train"
     /\ call.fcols = net.n_features
     /\ call.lcols = net.n_labels
     /\ call.frows = call.lrows
     /\ call.batch_size > 0
     /\ call.max_iter > 0
     /\ call.frows % call.batch_size # 0)
        => /\ res # "error"
           /\ engine # <<>>
           /\ \A k \in DOMAIN engine :
                 /\ engine[k].n_samples = call.frows
                 /\ engine[k].batch_size = call.batch_size

\* train has run an epoch on one row with a batch size of two
C8_OneRowBatchTwo ==
    /\ call.op = "train"
    /\ res = "ok"
    /\ call.frows = 1
    /\ call.batch_size = 2
    /\ Len(engine) = 1
    /\ engine[1].n_samples = 1

\* C2: loads(dumps(net)), and load of what dump wrote, gives a network with
\* the layer sizes of net, the bias and theta of every layer in chain order
\* equal to those of net, and the predict_prob output of net.
C2_SerializationRoundTrip ==
    [][(call.op \in {"dumps", "dump"} /\ call'.op \in {"loads", "load"})
         => /\ res' = "ok"
            /\ Sizes(loaded'.net) = Sizes(net)
            /\ GotValues(loaded'.heap, loaded'.net) = GotValues(heap, net)
            /\ BuffersFit(net, net.batch_size)
                  => Predictions(loaded'.heap, loaded'.net) = Predictions(heap, net)]_vars

\* a trained network whose theta differs from slot to slot and whose batch
\* size is not the default was dumped and loaded
C2_TrainedNetLoaded ==
    /\ call.op \in {"loads", "load"}
    /\ res = "ok"
    /\ net.batch_size # loaded.net.batch_size
    /\ GotValues(loaded.heap, loaded.net) = GotValues(heap, net)
    /\ Len(heap[net.chain[1].theta].data) = 2
    /\ heap[net.chain[1].theta].data[1] # heap[net.chain[1].theta].data[2]
    /\ heap[net.chain[1].bias].data # <<0>>

====
